---- MODULE Spec2Model ----
(***************************************************************************)
(* construct_sampler of aemcmc/basic.py as a state machine.                *)
(*                                                                         *)
(* Graph variables are identified by <<kind, index>> pairs; identity is    *)
(* equality of the pair.  The Apply nodes that own variables live in one   *)
(* arena, node_inputs, shared by the model graph, by the step expressions  *)
(* the rewrites registered and by every per-step FunctionGraph, which the  *)
(* code builds with clone=False.                                           *)
(***************************************************************************)
EXTENDS Integers, Sequences, FiniteSets, TLC

VARIABLES
    pc,                    \* "start" | "loop" | "raised" | "returned"
    fgraph_outputs,        \* fgraph.outputs, in declared order
    obs_rvs_to_values,     \* canonical observed rv -> observation node
    new_to_old_rvs,        \* canonical rv -> original rv
    discovered_samplers,   \* rv -> sequence of (desc, step, updates)
    subsumed,              \* step nodes that expand_subsumptions rewrites
    node_inputs,           \* Apply inputs of every variable that has an owner
    raw_inputs,            \* node_inputs as the discovery pass left it
    random_vars,           \* latent outputs, in order
    rvs_to_init_vals,      \* latent rv -> initial-value placeholder
    posterior_sample_steps,\* the substitution table, a dict: <<key, value>> pairs in insertion order
    posterior_updates,     \* global update mapping
    rvs_without_samplers,  \* latent nodes with no candidate
    idx,                   \* position of the for loop in fgraph.outputs
    selected,              \* rv -> the candidate rv_steps.pop() returned
    errors,                \* the exceptions raised so far
    results                \* the tuples returned so far

vars == <<pc, fgraph_outputs, obs_rvs_to_values, new_to_old_rvs,
          discovered_samplers, subsumed, node_inputs, raw_inputs, random_vars,
          rvs_to_init_vals, posterior_sample_steps, posterior_updates,
          rvs_without_samplers, idx, selected, errors, results>>

(***************************************************************************)
(* Bounds of the model.                                                    *)
(***************************************************************************)
NumRVs == 2
MaxRefs == 3

(***************************************************************************)
(* Variables of the graphs.                                                *)
(***************************************************************************)
RVIds == 1..NumRVs
Rv(i) == <<"rv", i>>
Orig(i) == <<"orig", i>>
ObsVal(i) == <<"obs", i>>
StepNode(i) == <<"step", i>>
ExpNode(i) == <<"exp", i>>
UVal(i) == <<"uval", i>>
UKey(i) == <<"ukey", i>>
SharedKey == <<"ukey", NumRVs + 1>>
DetNode == <<"det", NumRVs + 1>>

RVs == {Rv(i) : i \in RVIds}
OwnedNodes == RVs \cup {DetNode} \cup {StepNode(i) : i \in RVIds}
                  \cup {ExpNode(i) : i \in RVIds} \cup {UVal(i) : i \in RVIds}

EmptyMap == [x \in {} |-> x]

Merge(a, b) ==
    [k \in DOMAIN a \cup DOMAIN b |-> IF k \in DOMAIN b THEN b[k] ELSE a[k]]

Range(s) == {s[i] : i \in DOMAIN s}

RECURSIVE SetToSeq(_)
SetToSeq(S) ==
    IF S = {} THEN <<>>
    ELSE LET x == CHOOSE y \in S : TRUE IN <<x>> \o SetToSeq(S \ {x})

Inputs(inp, n) == IF n \in DOMAIN inp THEN inp[n] ELSE {}

RECURSIVE Ancestors(_, _)
Ancestors(inp, S) ==
    LET T == S \cup UNION {Inputs(inp, n) : n \in S}
    IN IF T = S THEN S ELSE Ancestors(inp, T)

(***************************************************************************)
(* FunctionGraph(outputs=..., clone=False): the graph is its outputs and   *)
(* their ancestors, over the Apply nodes of the arena it was given, not    *)
(* over a copy of them.                                                    *)
(***************************************************************************)
FunctionGraph(outs, inp) == [outs |-> outs, inp |-> inp]

Variables(g) == Ancestors(g.inp, Range(g.outs))

(***************************************************************************)
(* FunctionGraph.replace(var, new_var, import_missing=True): nothing when  *)
(* var is not in the graph; otherwise every client of var in the graph     *)
(* (an Apply input slot, or an output slot) is pointed at new_var.  The    *)
(* Apply nodes are changed in place.                                       *)
(***************************************************************************)
Replace(g, var, new_var) ==
    LET vs == Variables(g)
    IN IF var \notin vs THEN g
       ELSE [outs |-> [i \in DOMAIN g.outs |->
                          IF g.outs[i] = var THEN new_var ELSE g.outs[i]],
             inp  |-> [n \in DOMAIN g.inp |->
                          IF n \in vs /\ var \in g.inp[n]
                          THEN (g.inp[n] \ {var}) \cup {new_var}
                          ELSE g.inp[n]]]

(***************************************************************************)
(* FunctionGraph.replace_all(pairs): the pairs one after the other.        *)
(***************************************************************************)
RECURSIVE ReplaceAll(_, _)
ReplaceAll(g, pairs) ==
    IF pairs = <<>> THEN g
    ELSE ReplaceAll(Replace(g, Head(pairs)[1], Head(pairs)[2]), Tail(pairs))

(***************************************************************************)
(* expand_subsumptions.rewrite(sfgraph): every Elemwise of the graph that  *)
(* subsumes a DimShuffle is replaced by a new, expanded variable over the  *)
(* same inputs; an expanded variable is not rewritten again.               *)
(***************************************************************************)
Expanded(n) == ExpNode(n[2])

RECURSIVE ExpandNodes(_, _)
ExpandNodes(g, todo) ==
    IF todo = <<>> THEN g
    ELSE LET n == Head(todo)
             g1 == [g EXCEPT !.inp[Expanded(n)] = g.inp[n]]
         IN ExpandNodes(Replace(g1, n, Expanded(n)), Tail(todo))

ExpandSubsumptions(g, sub) == ExpandNodes(g, SetToSeq(Variables(g) \cap sub))

(* The variable itself where the code clones it.                           *)
Clone_Same(rv) == rv

(***************************************************************************)
(* rv.clone(): a new variable of the same type, with no owner.             *)
(***************************************************************************)
Clone(rv) == <<"init", rv[2]>>

(***************************************************************************)
(* A dict that is iterated: its items, in insertion order.                 *)
(***************************************************************************)
DictKeys(d) == {d[i][1] : i \in DOMAIN d}

DictGet(d, k) == d[CHOOSE i \in DOMAIN d : d[i][1] = k][2]

DictSet(d, k, v) ==
    IF k \in DictKeys(d)
    THEN [i \in DOMAIN d |-> IF d[i][1] = k THEN <<k, v>> ELSE d[i]]
    ELSE Append(d, <<k, v>>)

RECURSIVE DictUpdate(_, _)
DictUpdate(d, pairs) ==
    IF pairs = <<>> THEN d
    ELSE DictUpdate(DictSet(d, Head(pairs)[1], Head(pairs)[2]), Tail(pairs))

(***************************************************************************)
(* dict(zip(keys, values)): a later pair overwrites an earlier one.        *)
(***************************************************************************)
ZipDict(ks, vs) ==
    [k \in Range(ks) |->
        vs[CHOOSE i \in DOMAIN ks :
              ks[i] = k /\ \A j \in DOMAIN ks : ks[j] = k => j <= i]]

(***************************************************************************)
(* The inputs of one call, as construct_ir_fgraph and the "+basic" rewrite *)
(* pass leave them: which outputs are observed, which have a candidate,    *)
(* which candidates carry an update, which step expressions are in         *)
(* subsumed form, and which nodes the expressions and the model graph      *)
(* reference.  DetNode is a deterministic node of the model graph.         *)
(***************************************************************************)
RefSources == RVs \cup {DetNode} \cup {StepNode(i) : i \in RVIds}
                  \cup {UVal(i) : i \in RVIds}

AllRefs == {e \in RefSources \X (RVs \cup {DetNode}) : e[1] # e[2]}

RECURSIVE SubsetsUpTo(_, _)
SubsetsUpTo(S, k) ==
    IF k = 0 THEN {{}}
    ELSE LET P == SubsetsUpTo(S, k - 1)
         IN P \cup {p \cup {e} : p \in P, e \in S}

RefSets == SubsetsUpTo(AllRefs, MaxRefs)

Candidate(i, upd, shared) ==
    [desc    |-> "gibbs",
     step    |-> StepNode(i),
     updates |-> IF i \in upd
                 THEN (IF shared THEN SharedKey ELSE UKey(i)) :> UVal(i)
                 ELSE EmptyMap]

InputsFrom(refs) == [n \in OwnedNodes |-> {e[2] : e \in {f \in refs : f[1] = n}}]

(* The graph is acyclic, and every reference belongs to an expression that *)
(* some candidate of a latent node reaches.                                *)
WellFormedRefs(refs, obs, cand, upd) ==
    LET inp == InputsFrom(refs)
        roots == {StepNode(i) : i \in cand \ obs} \cup {UVal(i) : i \in upd}
    IN /\ \A e \in refs : e[1] \in Ancestors(inp, roots)
       /\ \A n \in OwnedNodes : n \notin Ancestors(inp, inp[n])

Init ==
    \E obs \in SUBSET RVIds, cand \in SUBSET RVIds :
    \E upd \in SUBSET (cand \ obs), refs \in RefSets :
    /\ WellFormedRefs(refs, obs, cand, upd)
    /\ \E sub \in SUBSET (cand \ obs), shared \in BOOLEAN :
       /\ shared => Cardinality(upd) > 1
       /\ pc = "start"
       /\ fgraph_outputs = [i \in RVIds |-> Rv(i)]
       /\ obs_rvs_to_values = [rv \in {Rv(i) : i \in obs} |-> ObsVal(rv[2])]
       /\ new_to_old_rvs = [rv \in RVs |-> Orig(rv[2])]
       /\ discovered_samplers =
             [rv \in {Rv(i) : i \in cand} |-> <<Candidate(rv[2], upd, shared)>>]
       /\ subsumed = {StepNode(i) : i \in sub}
       /\ node_inputs = InputsFrom(refs)
       /\ raw_inputs = node_inputs
       /\ random_vars = <<>>
       /\ rvs_to_init_vals = EmptyMap
       /\ posterior_sample_steps = <<>>
       /\ posterior_updates = EmptyMap
       /\ rvs_without_samplers = {}
       /\ idx = 1
       /\ selected = EmptyMap
       /\ errors = <<>>
       /\ results = {}

inputs == <<fgraph_outputs, obs_rvs_to_values, new_to_old_rvs, subsumed, raw_inputs>>

IsObserved(rv) == rv \in DOMAIN obs_rvs_to_values

IsLatent(rv) == ~IsObserved(rv)

ObservedItems ==
    LET keys == SelectSeq(fgraph_outputs, IsObserved)
    IN [i \in DOMAIN keys |-> <<keys[i], obs_rvs_to_values[keys[i]]>>]

InitValItems(latent) == [i \in DOMAIN latent |-> <<latent[i], Clone(latent[i])>>]

SetupWith(table) ==
    /\ pc = "start"
    /\ random_vars' = SelectSeq(fgraph_outputs, IsLatent)
    /\ rvs_to_init_vals' = [rv \in Range(random_vars') |-> Clone(rv)]
    /\ posterior_sample_steps' = table
    /\ posterior_updates' = EmptyMap
    /\ rvs_without_samplers' = {}
    /\ idx' = 1
    /\ pc' = "loop"
    /\ UNCHANGED <<inputs, discovered_samplers, node_inputs, selected, errors, results>>

(* The table without the placeholders of the latent nodes.                 *)
Setup_NoPlaceholders == SetupWith(ObservedItems)

(* The table without the entries of the observed mapping.                  *)
Setup_NoObserved == SetupWith(InitValItems(SelectSeq(fgraph_outputs, IsLatent)))

(***************************************************************************)
(* Lines 46-58: the latent outputs, their placeholders and the table.      *)
(***************************************************************************)
Setup ==
    /\ pc = "start"
    /\ random_vars' = SelectSeq(fgraph_outputs, IsLatent)
    /\ rvs_to_init_vals' = [rv \in Range(random_vars') |-> Clone(rv)]
    /\ posterior_sample_steps' = DictUpdate(InitValItems(random_vars'), ObservedItems)
    /\ posterior_updates' = EmptyMap
    /\ rvs_without_samplers' = {}
    /\ idx' = 1
    /\ pc' = "loop"
    /\ UNCHANGED <<inputs, discovered_samplers, node_inputs, selected, errors, results>>

(***************************************************************************)
(* Lines 60-104: one iteration of the loop over fgraph.outputs.            *)
(***************************************************************************)
InLoop == pc = "loop" /\ idx <= Len(fgraph_outputs)

rv_steps(rv) ==
    IF rv \in DOMAIN discovered_samplers THEN discovered_samplers[rv] ELSE <<>>

(* The candidates looked up before the observed mapping.                   *)
SkipObserved_CandidatesFirst ==
    /\ InLoop
    /\ IsObserved(fgraph_outputs[idx])
    /\ rvs_without_samplers' =
          IF rv_steps(fgraph_outputs[idx]) = <<>>
          THEN rvs_without_samplers \cup {fgraph_outputs[idx]}
          ELSE rvs_without_samplers
    /\ idx' = idx + 1
    /\ UNCHANGED <<pc, inputs, discovered_samplers, node_inputs, random_vars,
                   rvs_to_init_vals, posterior_sample_steps, posterior_updates,
                   selected, errors, results>>

SkipObserved ==
    /\ InLoop
    /\ IsObserved(fgraph_outputs[idx])
    /\ idx' = idx + 1
    /\ UNCHANGED <<pc, inputs, discovered_samplers, node_inputs, random_vars,
                   rvs_to_init_vals, posterior_sample_steps, posterior_updates,
                   rvs_without_samplers, selected, errors, results>>

(* The error raised at the first latent node without a candidate.         *)
RecordMissing_Abort ==
    /\ InLoop
    /\ ~IsObserved(fgraph_outputs[idx])
    /\ rv_steps(fgraph_outputs[idx]) = <<>>
    /\ rvs_without_samplers' = rvs_without_samplers \cup {fgraph_outputs[idx]}
    /\ errors' = Append(errors, [type  |-> "NotImplementedError",
                                 names |-> rvs_without_samplers'])
    /\ pc' = "raised"
    /\ UNCHANGED <<inputs, discovered_samplers, node_inputs, random_vars,
                   rvs_to_init_vals, posterior_sample_steps, posterior_updates,
                   idx, selected, results>>

RecordMissing ==
    /\ InLoop
    /\ ~IsObserved(fgraph_outputs[idx])
    /\ rv_steps(fgraph_outputs[idx]) = <<>>
    /\ rvs_without_samplers' = rvs_without_samplers \cup {fgraph_outputs[idx]}
    /\ idx' = idx + 1
    /\ UNCHANGED <<pc, inputs, discovered_samplers, node_inputs, random_vars,
                   rvs_to_init_vals, posterior_sample_steps, posterior_updates,
                   selected, errors, results>>

(* Lines 75-90: the per-step graph after substitution and normalization.   *)
StepGraph(cand, table, inp) ==
    LET update_keys == SetToSeq(DOMAIN cand.updates)
        update_values == [i \in DOMAIN update_keys |-> cand.updates[update_keys[i]]]
        sfgraph == FunctionGraph(<<cand.step>> \o update_keys \o update_values, inp)
    IN ExpandSubsumptions(ReplaceAll(sfgraph, table), subsumed)

(* Lines 99-103: the update mapping read back from the per-step graph.     *)
ResolvedUpdates(cand, sfgraph) ==
    LET n == Cardinality(DOMAIN cand.updates)
        keys_offset == n + 1
    IN IF n = 0 THEN EmptyMap
       ELSE ZipDict(SubSeq(sfgraph.outs, 2, keys_offset),
                    SubSeq(sfgraph.outs, keys_offset + 1, Len(sfgraph.outs)))

(* The step's updates assigned where the code merges them.                 *)
MergeUpdates_Overwrite(old, new) == new

(* Line 104: posterior_updates.update(updates).                            *)
MergeUpdates(old, new) == Merge(old, new)

ResolveStep ==
    /\ InLoop
    /\ ~IsObserved(fgraph_outputs[idx])
    /\ rv_steps(fgraph_outputs[idx]) # <<>>
    /\ LET rv == fgraph_outputs[idx]
           steps == rv_steps(rv)
           cand == steps[Len(steps)]
           sfgraph == StepGraph(cand, posterior_sample_steps, node_inputs)
       IN /\ discovered_samplers' =
                [discovered_samplers EXCEPT ![rv] = SubSeq(steps, 1, Len(steps) - 1)]
          /\ selected' = Merge(selected, rv :> cand)
          /\ node_inputs' = sfgraph.inp
          /\ posterior_sample_steps' = DictSet(posterior_sample_steps, rv, sfgraph.outs[1])
          /\ posterior_updates' =
                MergeUpdates(posterior_updates, ResolvedUpdates(cand, sfgraph))
    /\ idx' = idx + 1
    /\ UNCHANGED <<pc, inputs, random_vars, rvs_to_init_vals,
                   rvs_without_samplers, errors, results>>

(***************************************************************************)
(* Lines 106-110: the error for the latent nodes without a sampler.        *)
(***************************************************************************)
LoopDone == pc = "loop" /\ idx > Len(fgraph_outputs)

(* The error naming every latent node.                                     *)
Raise_AllLatent ==
    /\ LoopDone
    /\ rvs_without_samplers # {}
    /\ errors' = Append(errors, [type  |-> "NotImplementedError",
                                 names |-> Range(random_vars)])
    /\ pc' = "raised"
    /\ UNCHANGED <<inputs, discovered_samplers, node_inputs, random_vars,
                   rvs_to_init_vals, posterior_sample_steps, posterior_updates,
                   rvs_without_samplers, idx, selected, results>>

Raise ==
    /\ LoopDone
    /\ rvs_without_samplers # {}
    /\ errors' = Append(errors, [type  |-> "NotImplementedError",
                                 names |-> rvs_without_samplers])
    /\ pc' = "raised"
    /\ UNCHANGED <<inputs, discovered_samplers, node_inputs, random_vars,
                   rvs_to_init_vals, posterior_sample_steps, posterior_updates,
                   rvs_without_samplers, idx, selected, results>>

(***************************************************************************)
(* Lines 115-123: the three mappings, keyed by the original variables.     *)
(***************************************************************************)
(* Every key of the table, the observed nodes included.                    *)
ReturnedSteps_Unfiltered ==
    [o \in {new_to_old_rvs[rv] : rv \in DictKeys(posterior_sample_steps)} |->
        DictGet(posterior_sample_steps,
                CHOOSE rv \in DictKeys(posterior_sample_steps) : new_to_old_rvs[rv] = o)]

ReturnedSteps ==
    LET keep == {rv \in DictKeys(posterior_sample_steps) : ~IsObserved(rv)}
    IN [o \in {new_to_old_rvs[rv] : rv \in keep} |->
           DictGet(posterior_sample_steps,
                   CHOOSE rv \in keep : new_to_old_rvs[rv] = o)]

ReturnedInitVals ==
    [o \in {new_to_old_rvs[rv] : rv \in DOMAIN rvs_to_init_vals} |->
        rvs_to_init_vals[CHOOSE rv \in DOMAIN rvs_to_init_vals : new_to_old_rvs[rv] = o]]

Return ==
    /\ LoopDone
    /\ rvs_without_samplers = {}
    /\ results' = results \cup {[steps   |-> ReturnedSteps,
                                 updates |-> posterior_updates,
                                 inits   |-> ReturnedInitVals]}
    /\ pc' = "returned"
    /\ UNCHANGED <<inputs, discovered_samplers, node_inputs, random_vars,
                   rvs_to_init_vals, posterior_sample_steps, posterior_updates,
                   rvs_without_samplers, idx, selected, errors>>

Next ==
    \/ Setup
    \/ SkipObserved
    \/ RecordMissing
    \/ ResolveStep
    \/ Raise
    \/ Return

Spec == Init /\ [][Next]_vars

(***************************************************************************)
(* Vocabulary of the properties.                                           *)
(***************************************************************************)
Pos(rv) == CHOOSE i \in DOMAIN fgraph_outputs : fgraph_outputs[i] = rv

Latents == {rv \in Range(fgraph_outputs) : ~IsObserved(rv)}

HadCandidate(rv) == rv \in DOMAIN selected \/ rv_steps(rv) # <<>>

MissingLatents == {rv \in Latents : ~HadCandidate(rv)}

Finished == pc \in {"raised", "returned"}

(* The nodes an expression reaches without passing through a node of stop. *)
RECURSIVE Reach(_, _, _)
Reach(inp, S, stop) ==
    LET T == S \cup UNION {Inputs(inp, n) : n \in S \ stop}
    IN IF T = S THEN S ELSE Reach(inp, T, stop)

(* The model variables a raw expression is written in terms of.            *)
RawRefs(n) == Reach(raw_inputs, {n}, RVs) \cap RVs

Refs(n) == Ancestors(node_inputs, {n})

Table(rv) == DictGet(posterior_sample_steps, rv)

StepOf(res, rv) == res.steps[new_to_old_rvs[rv]]

(***************************************************************************)
(* C1 as stated: when some latent output has no candidate, the call fails  *)
(* with MissingSamplerError naming exactly the latent nodes without a      *)
(* candidate, and returns nothing.                                         *)
(***************************************************************************)
C1_MissingSamplerError ==
    (Finished /\ MissingLatents # {}) =>
        /\ errors = <<[type |-> "MissingSamplerError", names |-> MissingLatents]>>
        /\ results = {}

(***************************************************************************)
(* C1 amended: when some latent output has no candidate, the call fails    *)
(* with NotImplementedError naming exactly the latent nodes without a      *)
(* candidate, and returns nothing.                                         *)
(***************************************************************************)
C1_FailsNamingUnresolved ==
    (Finished /\ MissingLatents # {}) =>
        /\ errors = <<[type |-> "NotImplementedError", names |-> MissingLatents]>>
        /\ results = {}

C1_Witness == pc = "raised" /\ MissingLatents # {} /\ MissingLatents # Latents

(***************************************************************************)
(* C2: a successful call returns a step for the original identity of every *)
(* latent node that had a candidate, and none for an observed node.        *)
(***************************************************************************)
C2_StepKeys ==
    pc = "returned" =>
        \A res \in results :
            /\ \A rv \in Latents :
                  HadCandidate(rv) => new_to_old_rvs[rv] \in DOMAIN res.steps
            /\ \A rv \in DOMAIN obs_rvs_to_values :
                  new_to_old_rvs[rv] \notin DOMAIN res.steps

C2_Witness ==
    /\ pc = "returned"
    /\ results # {}
    /\ Latents # {}
    /\ DOMAIN obs_rvs_to_values # {}

(***************************************************************************)
(* C3 as stated: when A precedes B in output order and B's raw step        *)
(* references A, the step returned for B references the resolved step of A *)
(* and, outside that step, does not reference A's placeholder.             *)
(***************************************************************************)
C3_DependencySubstitution ==
    pc = "returned" =>
        \A res \in results : \A a \in Latents, b \in Latents :
            (Pos(a) < Pos(b) /\ a \in RawRefs(selected[b].step)) =>
                /\ Table(a) \in Refs(StepOf(res, b))
                /\ rvs_to_init_vals[a] \notin
                      Reach(node_inputs, {StepOf(res, b)}, {Table(a)})

(***************************************************************************)
(* C4 as stated: an iteration of the loop changes no Apply node of the     *)
(* model graph and none of a raw expression of a candidate that is still   *)
(* to be processed.                                                        *)
(***************************************************************************)
ModelNodes == RVs \cup {DetNode}

PendingNodes ==
    LET roots == UNION {UNION {{c.step} \cup Range(c.updates) :
                                  c \in Range(discovered_samplers'[rv])} :
                        rv \in DOMAIN discovered_samplers'}
    IN Ancestors(node_inputs, roots) \cap OwnedNodes

C4_StepGraphIsolated ==
    [][\A n \in ModelNodes \cup PendingNodes : node_inputs'[n] = node_inputs[n]]_vars

(***************************************************************************)
(* C5: when two latent nodes' candidates carry updates with disjoint keys, *)
(* the returned update mapping holds every entry of both, each key mapped  *)
(* to its own step's resolved value.                                       *)
(***************************************************************************)
C5_UpdateUnion ==
    pc = "returned" =>
        \A res \in results : \A a \in Latents, b \in Latents :
            (a # b /\ DOMAIN selected[a].updates # {} /\ DOMAIN selected[b].updates # {}
                   /\ DOMAIN selected[a].updates \cap DOMAIN selected[b].updates = {}) =>
                \A k \in DOMAIN selected[a].updates :
                    /\ k \in DOMAIN res.updates
                    /\ res.updates[k] = selected[a].updates[k]
                    /\ Refs(res.updates[k]) \cap RVs = {}

C5_Witness ==
    /\ pc = "returned"
    /\ \E a \in Latents, b \in Latents :
          /\ a # b
          /\ DOMAIN selected[a].updates # {}
          /\ DOMAIN selected[b].updates # {}
          /\ DOMAIN selected[a].updates \cap DOMAIN selected[b].updates = {}
          /\ RawRefs(UVal(a[2])) # {}

(***************************************************************************)
(* C6: when every output is observed the call returns three empty          *)
(* mappings, whatever candidates were registered.                          *)
(***************************************************************************)
C6_AllObserved ==
    (Latents = {} /\ pc # "start") =>
        /\ errors = <<>>
        /\ pc # "raised"
        /\ pc = "returned" =>
              results = {[steps |-> EmptyMap, updates |-> EmptyMap, inits |-> EmptyMap]}

C6_Witness ==
    /\ pc = "returned"
    /\ Latents = {}
    /\ DOMAIN discovered_samplers # {}
    /\ DOMAIN discovered_samplers # Range(fgraph_outputs)

(***************************************************************************)
(* C7: during the loop the table maps every latent node not yet resolved   *)
(* to its own fresh placeholder, every latent node already resolved to its *)
(* resolved step, which references no model variable, and every observed   *)
(* node to its observation.                                                *)
(***************************************************************************)
RawNodes == OwnedNodes \cup UNION {raw_inputs[n] : n \in DOMAIN raw_inputs}
               \cup Range(obs_rvs_to_values)

IsFreshPlaceholder(rv) ==
    /\ rvs_to_init_vals[rv] \notin RawNodes
    /\ \A other \in Latents \ {rv} : rvs_to_init_vals[other] # rvs_to_init_vals[rv]

IsResolvedStep(rv) ==
    /\ Table(rv) = IF selected[rv].step \in subsumed
                   THEN Expanded(selected[rv].step)
                   ELSE selected[rv].step
    /\ Refs(Table(rv)) \cap RVs = {}

C8_OrderDependence ==
    pc = "returned" =>
        \A res \in results : \A a \in Latents, b \in Latents :
            (Pos(b) < Pos(a) /\ a \in RawRefs(selected[b].step)) =>
                /\ rvs_to_init_vals[a] \in Refs(StepOf(res, b))
                /\ Table(a) \notin Refs(StepOf(res, b))

C8_Witness ==
    /\ pc = "returned"
    /\ \E a \in Latents, b \in Latents :
          /\ Pos(b) < Pos(a)
          /\ a \in RawRefs(selected[b].step)
          /\ b \in RawRefs(selected[a].step)

(***************************************************************************)
(* C9: the error is raised at most once, only after the loop has visited   *)
(* every output, and by then every latent node with a candidate has its    *)
(* step in the table and its updates in the global mapping.                *)
(***************************************************************************)
C9_FailureAccumulation ==
    /\ Len(errors) <= 1
    /\ errors # <<>> =>
          /\ idx > Len(fgraph_outputs)
          /\ \A rv \in Latents :
                HadCandidate(rv) =>
                    /\ rv \in DOMAIN selected
                    /\ Table(rv) \in {selected[rv].step, Expanded(selected[rv].step)}
                    /\ \A k \in DOMAIN selected[rv].updates : k \in DOMAIN posterior_updates

C9_Witness ==
    /\ pc = "raised"
    /\ \E a \in Latents, b \in Latents :
          /\ Pos(a) < Pos(b)
          /\ a \in MissingLatents
          /\ b \in DOMAIN selected
          /\ DOMAIN selected[b].updates # {}

(***************************************************************************)
(* C10: no returned step and no key or value of the returned updates       *)
(* references an observed node; where a selected candidate referenced one, *)
(* the result references its observation node.                             *)
(***************************************************************************)
C10_ObservedResolved ==
    pc = "returned" =>
        \A res \in results :
            /\ Ancestors(node_inputs,
                         Range(res.steps) \cup DOMAIN res.updates \cup Range(res.updates))
                  \cap DOMAIN obs_rvs_to_values = {}
            /\ \A rv \in Latents, y \in DOMAIN obs_rvs_to_values :
                  /\ y \in RawRefs(selected[rv].step) =>
                        obs_rvs_to_values[y] \in Refs(StepOf(res, rv))
                  /\ \A k \in DOMAIN selected[rv].updates :
                        (/\ res.updates[k] = selected[rv].updates[k]
                         /\ y \in RawRefs(selected[rv].updates[k])) =>
                            obs_rvs_to_values[y] \in Refs(res.updates[k])

C10_Witness ==
    /\ pc = "returned"
    /\ \E rv \in Latents, y \in DOMAIN obs_rvs_to_values :
          /\ y \in RawRefs(selected[rv].step)
          /\ \E k \in DOMAIN selected[rv].updates : y \in RawRefs(selected[rv].updates[k])

====
